---- MODULE Spec2Model ----
(***************************************************************************)
(* Shaco job tracker (src/modules/job_tracker.py): the record store with   *)
(* its write-temp-then-replace save, identifier and status resolution, the *)
(* CRUD operations and the guided add prompt.                              *)
(*                                                                         *)
(* Python strings are tuples of one-character strings, so that strip(),    *)
(* lower() and difflib's matching are computed and not assumed.            *)
(***************************************************************************)
EXTENDS Integers, Sequences, FiniteSets, TLC

\* ---------------------------------------------------------------- bounds
\* Largest number of records the store holds (add_job is not called beyond).
MaxJobs == 2
\* Number of uuid4() values drawn in a run.
MaxUuid == 3
\* Largest value of the logical clock behind datetime.now().
MaxClock == 1

\* --------------------------------------------------------------- strings
S_applied == <<"a","p","p","l","i","e","d">>
S_interviewing == <<"i","n","t","e","r","v","i","e","w","i","n","g">>
S_offer == <<"o","f","f","e","r">>
S_accepted == <<"a","c","c","e","p","t","e","d">>
S_rejected == <<"r","e","j","e","c","t","e","d">>
S_withdrawn == <<"w","i","t","h","d","r","a","w","n">>
S_todo == <<"t","o","d","o">>
S_int == <<"i","n","t">>
S_interview == <<"i","n","t","e","r","v","i","e","w">>
S_appl == <<"a","p","p","l">>
S_rej == <<"r","e","j">>
S_acc == <<"a","c","c">>
S_off == <<"o","f","f">>
S_empty == <<>>

\* Python's None, where a str is optional: a value no string equals.
None == <<"<None>">>

DEFAULT_STATUSES ==
  <<S_applied, S_interviewing, S_offer, S_accepted, S_rejected, S_withdrawn, S_todo>>

StatusSet == {DEFAULT_STATUSES[i] : i \in 1..Len(DEFAULT_STATUSES)}

UpperChars ==
  <<"A","B","C","D","E","F","G","H","I","J","K","L","M",
    "N","O","P","Q","R","S","T","U","V","W","X","Y","Z">>
LowerChars ==
  <<"a","b","c","d","e","f","g","h","i","j","k","l","m",
    "n","o","p","q","r","s","t","u","v","w","x","y","z">>
Whitespace == {" ", "\t", "\n"}

\* Code-point order of the characters the model uses (space, upper, lower).
Ord(c) ==
  IF c \in Whitespace THEN 0
  ELSE IF \E i \in 1..26 : UpperChars[i] = c
       THEN (CHOOSE i \in 1..26 : UpperChars[i] = c)
       ELSE IF \E i \in 1..26 : LowerChars[i] = c
            THEN 26 + (CHOOSE i \in 1..26 : LowerChars[i] = c)
            ELSE 60

LowerChar(c) ==
  IF \E i \in 1..26 : UpperChars[i] = c
  THEN LowerChars[CHOOSE i \in 1..26 : UpperChars[i] = c]
  ELSE c

\* str.lower()
lower(s) == [i \in 1..Len(s) |-> LowerChar(s[i])]

\* str.strip(): drop leading and trailing whitespace
strip(s) ==
  LET keep == {i \in 1..Len(s) : s[i] \notin Whitespace}
  IN IF keep = {} THEN <<>>
     ELSE LET lo == CHOOSE i \in keep : \A j \in keep : i <= j
              hi == CHOOSE i \in keep : \A j \in keep : j <= i
          IN SubSeq(s, lo, hi)

\* Python's str < str (lexicographic by code point)
StrLess(x, y) ==
  \/ \E k \in 1..Len(x) :
       /\ k <= Len(y)
       /\ \A m \in 1..(k-1) : x[m] = y[m]
       /\ Ord(x[k]) < Ord(y[k])
  \/ /\ Len(x) < Len(y)
     /\ \A m \in 1..Len(x) : x[m] = y[m]

\* ----------------------------------------------------- difflib (library)
\* Length of the common run of a and b starting at a[i], b[j], inside
\* a[i..ahi-1], b[j..bhi-1].
RECURSIVE RunLen(_, _, _, _, _, _)
RunLen(a, b, i, j, ahi, bhi) ==
  IF i < ahi /\ j < bhi /\ a[i] = b[j]
  THEN 1 + RunLen(a, b, i + 1, j + 1, ahi, bhi)
  ELSE 0

\* SequenceMatcher.find_longest_match(alo, ahi, blo, bhi) without junk:
\* the longest block, of those the one starting earliest in a, of those the
\* one starting earliest in b. <<i, j, k>>, k = 0 when nothing matches.
Candidates(a, b, alo, ahi, blo, bhi) ==
  {c \in (alo..(ahi-1)) \X (blo..(bhi-1)) : a[c[1]] = b[c[2]]}

\* block c of length lc comes before block d of length ld
Before(c, lc, d, ld) ==
  \/ lc > ld
  \/ /\ lc = ld
     /\ \/ c[1] < d[1]
        \/ c[1] = d[1] /\ c[2] <= d[2]

BestOf(a, b, cand, ahi, bhi) ==
  CHOOSE c \in cand : \A d \in cand :
    Before(c, RunLen(a, b, c[1], c[2], ahi, bhi),
           d, RunLen(a, b, d[1], d[2], ahi, bhi))

Block(a, b, best, ahi, bhi) ==
  <<best[1], best[2], RunLen(a, b, best[1], best[2], ahi, bhi)>>

LongestIn(a, b, cand, alo, ahi, blo, bhi) ==
  IF cand = {} THEN <<alo, blo, 0>>
  ELSE Block(a, b, BestOf(a, b, cand, ahi, bhi), ahi, bhi)

find_longest_match(a, b, alo, ahi, blo, bhi) ==
  LongestIn(a, b, Candidates(a, b, alo, ahi, blo, bhi), alo, ahi, blo, bhi)

\* Sum of the sizes of SequenceMatcher.get_matching_blocks(): the longest
\* block m, and the blocks to its left and to its right
RECURSIVE MatchCount(_, _, _, _, _, _)
Around(a, b, alo, ahi, blo, bhi, m) ==
  IF m[3] = 0 THEN 0
  ELSE m[3] + MatchCount(a, b, alo, m[1], blo, m[2])
            + MatchCount(a, b, m[1] + m[3], ahi, m[2] + m[3], bhi)

MatchCount(a, b, alo, ahi, blo, bhi) ==
  IF alo >= ahi \/ blo >= bhi THEN 0
  ELSE Around(a, b, alo, ahi, blo, bhi,
              find_longest_match(a, b, alo, ahi, blo, bhi))

Min2(x, y) == IF x < y THEN x ELSE y

CountOf(s, c) == Cardinality({i \in 1..Len(s) : s[i] = c})

\* Numerators of real_quick_ratio(), quick_ratio() and ratio(): each ratio
\* is 2 * matches / (len(a) + len(b)).
RealQuickMatches(a, b) == Min2(Len(a), Len(b))

RECURSIVE SumCommon(_, _, _)
SumCommon(a, b, chars) ==
  IF chars = {} THEN 0
  ELSE Min2(CountOf(a, CHOOSE x \in chars : TRUE),
            CountOf(b, CHOOSE x \in chars : TRUE))
       + SumCommon(a, b, chars \ {CHOOSE x \in chars : TRUE})

QuickMatches(a, b) == SumCommon(a, b, {b[i] : i \in 1..Len(b)})

Matches(a, b) == MatchCount(a, b, 1, Len(a) + 1, 1, Len(b) + 1)

\* 2.0 * m / t >= 0.6, in integers
AtLeastCutoff(m, t) == 10 * m >= 3 * t

\* difflib.get_close_matches(word, possibilities, n=1, cutoff=0.6): the
\* possibility with the greatest (ratio, string), as heapq.nlargest orders
\* the (score, x) pairs; <<>> when no possibility reaches the cutoff.
Total(x, word) == Len(x) + Len(word)

Passes(x, word) ==
  /\ AtLeastCutoff(RealQuickMatches(x, word), Total(x, word))
  /\ AtLeastCutoff(QuickMatches(x, word), Total(x, word))
  /\ AtLeastCutoff(Matches(x, word), Total(x, word))

Close(word, possibilities) ==
  {i \in 1..Len(possibilities) : Passes(possibilities[i], word)}

\* (score, x) >= (score, y), the scores cross-multiplied
ScoreAbove(x, y, lhs, rhs) ==
  lhs > rhs \/ (lhs = rhs /\ (x = y \/ StrLess(y, x)))

Above(x, y, word) ==
  ScoreAbove(x, y, Matches(x, word) * Total(y, word),
             Matches(y, word) * Total(x, word))

Largest(ok, possibilities, word) ==
  IF ok = {} THEN <<>>
  ELSE <<possibilities[CHOOSE i \in ok : \A j \in ok :
                         Above(possibilities[i], possibilities[j], word)]>>

get_close_matches(word, possibilities) ==
  Largest(Close(word, possibilities), possibilities, word)

\* ------------------------------------------------------ normalize_status
\* the alias table of normalize_status
mapping ==
  [k \in {S_int, S_interview, S_appl, S_rej, S_acc, S_off, S_todo} |->
     CASE k = S_int -> S_interviewing
       [] k = S_interview -> S_interviewing
       [] k = S_appl -> S_applied
       [] k = S_rej -> S_rejected
       [] k = S_acc -> S_accepted
       [] k = S_off -> S_offer
       [] k = S_todo -> S_todo]

\* s = (raw or "").strip().lower()
Cleaned(raw) == lower(strip(IF raw = None THEN S_empty ELSE raw))

\* close[0] if close else dflt
FirstOr(close, dflt) == IF close # <<>> THEN close[1] ELSE dflt

\* the status for the cleaned string s: itself, its alias, its closest
\* match, else dflt
Canonical(s, dflt) ==
  IF s \in StatusSet THEN s
  ELSE IF s \in DOMAIN mapping THEN mapping[s]
  ELSE FirstOr(get_close_matches(s, DEFAULT_STATUSES), dflt)

\* (variant: the alias table is not consulted)
normalize_status_noalias(raw) ==
  IF Cleaned(raw) \in StatusSet THEN Cleaned(raw)
  ELSE FirstOr(get_close_matches(Cleaned(raw), DEFAULT_STATUSES), S_applied)

\* (variant: no default, the cleaned input is returned when nothing matches)
normalize_status_nodefault(raw) == Canonical(Cleaned(raw), Cleaned(raw))

normalize_status(raw) == Canonical(Cleaned(raw), S_applied)

\* Inputs: raw status strings (empty, mixed case with blanks, an alias, a
\* typo, unrelated text)
S_Offer_raw == <<" ","O","f","f","e","r"," ">>
S_rejcted == <<"r","e","j","c","t","e","d">>
S_ofer == <<"o","f","e","r">>
S_zzz == <<"z","z","z">>
StatusInputs == {S_empty, S_Offer_raw, S_int, S_rejcted, S_ofer, S_zzz}

S_dev == <<"d","e","v">>

\* normalize_status over the strings the operations are called with,
\* evaluated once
StatusArgs ==
  StatusInputs \cup {strip(s) : s \in StatusInputs}
  \cup {None, S_applied, S_dev, S_todo}
NormTable == [s \in StatusArgs |-> normalize_status(s)]
Normalized(raw) == NormTable[raw]

\* ------------------------------------------------------------ data model
\* "" as an id and as a timestamp
NoId == 0
NoTime == -1

JobKeys == {"id", "role", "company", "status", "updated_at"}

\* Job.touch(): updated_at becomes the current time
touch(job, now) == [job EXCEPT !.updated_at = now]

\* Job(...) with __post_init__: an empty id is replaced by a fresh uuid, an
\* empty updated_at by the current time
Job(id, role, company, status, updated_at, fresh, now) ==
  LET j == [id |-> IF id = NoId THEN fresh ELSE id,
            role |-> role, company |-> company, status |-> status,
            updated_at |-> updated_at]
  IN IF updated_at = NoTime THEN touch(j, now) ELSE j

\* Job.to_dict(): dataclasses.asdict, one key per field
to_dict(job) == [k \in JobKeys |-> job[k]]

\* (variant: every record read is given a new id)
from_dict_newid(d, fresh, now) ==
  [id |-> fresh, role |-> d["role"], company |-> d["company"],
   status |-> d["status"], updated_at |-> d["updated_at"]]

\* (variant: every record read is stamped with the time of the read)
from_dict_touch(d, fresh, now) ==
  [id |-> d["id"], role |-> d["role"], company |-> d["company"],
   status |-> d["status"], updated_at |-> now]

\* Job.from_dict(d): absent keys take their defaults
from_dict(d, fresh, now) ==
  LET get(k, dflt) == IF k \in DOMAIN d THEN d[k] ELSE dflt
  IN Job(get("id", fresh), get("role", S_empty), get("company", S_empty),
         get("status", S_applied), get("updated_at", now), fresh, now)

\* Whether from_dict(d) keeps a uuid it drew
DrawsId(d) == "id" \notin DOMAIN d \/ d["id"] = NoId

\* ----------------------------------------------------------- file system
\* The processes that may run the tracker against the same data file.
Procs == {"A", "B"}

\* inode numbers; 0 is "no such file"
Inodes == 1..(Cardinality(Procs) + 2)

\* Bytes of json.dump(indent=2) of one record with empty role, company and
\* status (a 36-character id, a 32-character timestamp).
RecBytes == 165

RECURSIVE ByteLen(_)
ByteLen(recs) ==
  IF recs = <<>> THEN 2
  ELSE RecBytes + Len(Head(recs).role) + Len(Head(recs).company)
       + Len(Head(recs).status) + ByteLen(Tail(recs))

\* File contents: a complete JSON array of records, an incomplete file (cut
\* short; zero bytes right after open(.., "w")), or bytes that are no JSON.
JsonFile(recs) == [kind |-> "json", recs |-> recs, len |-> ByteLen(recs)]
Truncated == [kind |-> "partial", recs |-> <<>>, len |-> 0]
CorruptFile == [kind |-> "corrupt", recs |-> <<>>, len |-> 1]
FreeInode == [kind |-> "free", recs |-> <<>>, len |-> 0]

NoFiles == [store |-> 0, tmp |-> 0, data |-> [i \in Inodes |-> FreeInode]]

\* Drop the inodes that no name and no open descriptor in `held` refers to.
Collect(f, held) ==
  [f EXCEPT !.data = [i \in Inodes |->
     IF i = f.store \/ i = f.tmp \/ i \in held THEN f.data[i] ELSE FreeInode]]

\* open(tmp, "w"): truncate the file the name refers to, or create it
OpenW(f, held) ==
  IF f.tmp # 0
  THEN [f EXCEPT !.data[f.tmp] = Truncated]
  ELSE LET free == {i \in Inodes : i # f.store /\ i \notin held}
           i == CHOOSE x \in free : \A y \in free : x <= y
       IN [f EXCEPT !.tmp = i, !.data[i] = Truncated]

\* json.dump + flush + fsync through a descriptor opened at offset 0: the new
\* bytes overlay what the inode holds; a longer older content keeps its tail.
WriteAll(f, ino, recs) ==
  LET new == JsonFile(recs)
      old == f.data[ino]
  IN [f EXCEPT !.data[ino] =
        IF new.len >= old.len \/ old = new THEN new
        ELSE [kind |-> "corrupt", recs |-> <<>>, len |-> old.len]]

\* os.replace(tmp, path): the store name now refers to tmp's inode
Replace(f, held) ==
  Collect([f EXCEPT !.store = f.tmp, !.tmp = 0], held)

StoreExists(f) == f.store # 0
StoreContent(f) == IF f.store = 0 THEN FreeInode ELSE f.data[f.store]
StoreParses(f) == f.store = 0 \/ f.data[f.store].kind = "json"
\* The records a reader of the store file gets (none when it cannot parse)
StoreRecs(f) == IF f.store # 0 /\ f.data[f.store].kind = "json"
                THEN f.data[f.store].recs ELSE <<>>

\* ------------------------------------------------------------ persistence
RECURSIVE LoadItems(_, _, _)
LoadItems(raw, u, now) ==
  IF raw = <<>> THEN [jobs |-> <<>>, uuid |-> u]
  ELSE LET d == Head(raw)
           rest == LoadItems(Tail(raw), IF DrawsId(d) THEN u + 1 ELSE u, now)
       IN [jobs |-> <<from_dict(d, u + 1, now)>> \o rest.jobs,
           uuid |-> rest.uuid]

\* (variant: a file that does not parse is read as no records)
load_jobs_swallow(f, u, now) ==
  IF f.store = 0 \/ f.data[f.store].kind # "json"
  THEN [err |-> FALSE, jobs |-> <<>>, uuid |-> u]
  ELSE [err |-> FALSE] @@ LoadItems(f.data[f.store].recs, u, now)

\* load_jobs(path): [] when the file is absent, json.load's exception when
\* it does not parse, else the records as Jobs
load_jobs(f, u, now) ==
  IF f.store = 0 THEN [err |-> FALSE, jobs |-> <<>>, uuid |-> u]
  ELSE IF f.data[f.store].kind # "json"
       THEN [err |-> TRUE, jobs |-> <<>>, uuid |-> u]
       ELSE [err |-> FALSE] @@ LoadItems(f.data[f.store].recs, u, now)

to_dicts(jobs) == [i \in 1..Len(jobs) |-> to_dict(jobs[i])]

\* The steps of save_jobs at which a run can be cut off: before open(tmp),
\* before the write, before os.replace; "never" is a run that completes.
Stops == {"never", "at_open", "at_write", "at_replace"}

\* (variant: the store file itself is opened for writing, no temporary file)
save_jobs_inplace(f, jobs, stop) ==
  LET opened == IF f.store # 0 THEN [f EXCEPT !.data[f.store] = Truncated]
                ELSE LET free == {i \in Inodes : i # f.tmp}
                         i == CHOOSE x \in free : \A y \in free : x <= y
                     IN [f EXCEPT !.store = i, !.data[i] = Truncated]
      written == WriteAll(opened, opened.store, to_dicts(jobs))
  IN CASE stop = "at_open" -> f
       [] stop = "at_write" -> opened
       [] OTHER -> written

\* save_jobs(jobs, path) by a single writer, stopped before step `stop`
save_jobs(f, jobs, stop) ==
  LET opened == OpenW(f, {})
      written == WriteAll(opened, opened.tmp, to_dicts(jobs))
  IN CASE stop = "at_open" -> f
       [] stop = "at_write" -> opened
       [] stop = "at_replace" -> written
       [] OTHER -> Replace(written, {})

\* -------------------------------------------------------------- utilities
\* An identifier is an int, a string of digits, or any other string (an id).
IntIdent(n) == [kind |-> "int", val |-> n]
DigitsIdent(n) == [kind |-> "digits", val |-> n]
IdIdent(u) == [kind |-> "id", val |-> u]
NoIdent == [kind |-> "none", val |-> 0]

\* (variant: an index past the end is taken as the last position)
_find_job_clamp(jobs, identifier) ==
  IF identifier.kind \in {"int", "digits"}
  THEN IF 0 <= identifier.val /\ jobs # <<>>
       THEN (IF identifier.val < Len(jobs) THEN identifier.val + 1 ELSE Len(jobs))
       ELSE 0
  ELSE IF \E i \in 1..Len(jobs) : jobs[i].id = identifier.val
       THEN CHOOSE i \in 1..Len(jobs) : jobs[i].id = identifier.val
       ELSE 0

\* (variant: no lower bound on the index, so that -1 is Python's jobs[-1])
_find_job_negative(jobs, identifier) ==
  IF identifier.kind \in {"int", "digits"}
  THEN IF identifier.val < Len(jobs)
       THEN (IF identifier.val < 0 THEN Len(jobs) + identifier.val + 1
             ELSE identifier.val + 1)
       ELSE 0
  ELSE IF \E i \in 1..Len(jobs) : jobs[i].id = identifier.val
       THEN CHOOSE i \in 1..Len(jobs) : jobs[i].id = identifier.val
       ELSE 0

\* _find_job(jobs, identifier): a position 1..Len(jobs), or 0 for None
\* (the code's positions are 0-based: position i here is index i - 1 there)
_find_job(jobs, identifier) ==
  IF identifier.kind \in {"int", "digits"}
  THEN IF 0 <= identifier.val /\ identifier.val < Len(jobs)
       THEN identifier.val + 1 ELSE 0
  ELSE IF \E i \in 1..Len(jobs) : jobs[i].id = identifier.val
       THEN CHOOSE i \in 1..Len(jobs) :
              /\ jobs[i].id = identifier.val
              /\ \A k \in 1..(i-1) : jobs[k].id # identifier.val
       ELSE 0

\* ------------------------------------------------------------------- CRUD
\* The argument left out of a call
Omitted == <<"<omitted>">>

\* add_job's record: Job(id=uuid4(), role.strip(), company.strip(),
\* normalize_status(status)), then touch()
NewJob(id, role, company, status, now) ==
  touch(Job(id, strip(role), strip(company),
            Normalized(IF status = Omitted THEN S_applied ELSE status),
            NoTime, id, now), now)

\* (variant: a field that was not supplied is overwritten with "")
UpdatedJob_overwrite(job, role, company, status, now) ==
  touch([job EXCEPT !.role = IF role = None THEN S_empty ELSE strip(role),
                    !.company = IF company = None THEN S_empty ELSE strip(company),
                    !.status = IF status = None THEN job.status ELSE Normalized(status)],
        now)

\* (variant: the timestamp is refreshed only when a field was supplied)
UpdatedJob_lazy(job, role, company, status, now) ==
  LET j1 == IF role # None THEN [job EXCEPT !.role = strip(role)] ELSE job
      j2 == IF company # None THEN [j1 EXCEPT !.company = strip(company)] ELSE j1
      j3 == IF status # None THEN [j2 EXCEPT !.status = Normalized(status)]
            ELSE j2
  IN IF role = None /\ company = None /\ status = None THEN job ELSE touch(j3, now)

\* update_job's changes to jobs[idx]
UpdatedJob(job, role, company, status, now) ==
  LET j1 == IF role # None THEN [job EXCEPT !.role = strip(role)] ELSE job
      j2 == IF company # None THEN [j1 EXCEPT !.company = strip(company)] ELSE j1
      j3 == IF status # None THEN [j2 EXCEPT !.status = Normalized(status)]
            ELSE j2
  IN touch(j3, now)

\* (variant: the record is read at idx and left in the list)
Pop_keep(jobs, idx) == jobs

\* list.pop(idx)
Pop(jobs, idx) == [i \in 1..(Len(jobs) - 1) |-> IF i < idx THEN jobs[i] ELSE jobs[i + 1]]

\* (variant: the filter is compared as typed)
Filtered_raw(jobs, status) ==
  IF status = None \/ status = S_empty THEN jobs
  ELSE SelectSeq(jobs, LAMBDA j : j.status = status)

\* list_jobs' filter
Filtered(jobs, status) ==
  IF status = None \/ status = S_empty THEN jobs
  ELSE SelectSeq(jobs, LAMBDA j : j.status = Normalized(status))

\* What a call hands back: the files and the uuid count afterwards, how it
\* ended ("ok": returned a Job or a list; "none": returned None; "error":
\* raised; "interrupted": cut off inside save_jobs) and the Jobs returned.
Result(f, u, ret, out) ==
  [fs |-> f, uuid |-> u, ret |-> ret, out |-> out, saves |-> FALSE, saved |-> <<>>]

\* (variant: what goes wrong inside save_jobs is caught and passed over)
Outcome_ok(stop) == "ok"

\* How a call that reached save_jobs ends: nothing catches what open,
\* json.dump, fsync or os.replace raise, so a save_jobs that stops early
\* (an exception, or the process is killed) ends the call without a value.
Outcome(stop) == IF stop = "never" THEN "ok" ELSE "interrupted"

\* A call that reaches save_jobs(jobs) and then returns `out`
Saves(f, u, jobs, stop, out) ==
  [fs |-> save_jobs(f, jobs, stop), uuid |-> u, ret |-> Outcome(stop),
   out |-> IF Outcome(stop) = "ok" THEN out ELSE <<>>,
   saves |-> TRUE, saved |-> jobs]

\* str(uuid.uuid4()) in add_job, after u values were drawn: a value never
\* drawn before
NewId_bylen(jobs, u) == Len(jobs) + 1
NewId(jobs, u) == u + 1

\* add_job(role, company, status), at time `now`
add_job(f, u, now, role, company, status, stop) ==
  LET ld == load_jobs(f, u, now)
      job == NewJob(NewId(ld.jobs, ld.uuid), role, company, status, now)
  IN IF ld.err THEN Result(f, u, "error", <<>>)
     \* None.strip() raises AttributeError, after uuid4() was drawn
     ELSE IF role = None \/ company = None
     THEN Result(f, ld.uuid + 1, "error", <<>>)
     ELSE Saves(f, ld.uuid + 1, Append(ld.jobs, job), stop, <<job>>)

\* list_jobs(status=status)
list_jobs(f, u, now, status) ==
  LET ld == load_jobs(f, u, now)
  IN IF ld.err THEN Result(f, u, "error", <<>>)
     ELSE Result(f, ld.uuid, "ok", Filtered(ld.jobs, status))

\* remove_job(identifier)
remove_job(f, u, now, identifier, stop) ==
  LET ld == load_jobs(f, u, now)
      idx == _find_job(ld.jobs, identifier)
  IN IF ld.err THEN Result(f, u, "error", <<>>)
     ELSE IF idx = 0 THEN Result(f, ld.uuid, "none", <<>>)
     ELSE Saves(f, ld.uuid, Pop(ld.jobs, idx), stop, <<ld.jobs[idx]>>)

\* update_job(identifier, role=.., company=.., status=..)
update_job(f, u, now, identifier, role, company, status, stop) ==
  LET ld == load_jobs(f, u, now)
      idx == _find_job(ld.jobs, identifier)
      job == UpdatedJob(ld.jobs[idx], role, company, status, now)
  IN IF ld.err THEN Result(f, u, "error", <<>>)
     ELSE IF idx = 0 THEN Result(f, ld.uuid, "none", <<>>)
     ELSE Saves(f, ld.uuid, [ld.jobs EXCEPT ![idx] = job], stop, <<job>>)

\* job_tracker.handle_command(["add", role, company] or [.., status]):
\* status = argv[3] if len(argv) > 3 else "applied"
handle_command_add(f, u, now, role, company, status) ==
  add_job(f, u, now, role, company,
          IF status = Omitted THEN S_applied ELSE status, "never")

\* main.handle_command('job add "role" "company" [status]'): the third
\* group of the pattern is None without a status word; status or "todo"
main_handle_command_add(f, u, now, role, company, status) ==
  add_job(f, u, now, role, company,
          IF status = None THEN S_todo ELSE status, "never")

\* ------------------------------------------------- free-text translator
\* k in t, for a non-empty k: k occurs in t at position i
StartsAt(t, k, i) ==
  i + Len(k) - 1 <= Len(t) /\ SubSeq(t, i, i + Len(k) - 1) = k
Contains(t, k) == \E i \in 1..Len(t) : StartsAt(t, k, i)
FirstAt(t, k) ==
  CHOOSE i \in 1..Len(t) : StartsAt(t, k, i) /\ \A j \in 1..(i - 1) : ~StartsAt(t, k, j)

\* str.replace(old, new): the occurrences from left to right, not overlapping
RECURSIVE Replaced(_, _, _)
ReplacedAt(t, old, new, i) ==
  SubSeq(t, 1, i - 1) \o new \o Replaced(SubSeq(t, i + Len(old), Len(t)), old, new)
Replaced(t, old, new) ==
  IF Contains(t, old) THEN ReplacedAt(t, old, new, FirstAt(t, old)) ELSE t

\* t.split(sep)[0] and, when sep occurs in t, t.split(sep)[1]
PartBefore(t, sep) ==
  IF Contains(t, sep) THEN SubSeq(t, 1, FirstAt(t, sep) - 1) ELSE t
PartAfter(t, sep) == SubSeq(t, FirstAt(t, sep) + Len(sep), Len(t))

\* str.strip(chars)
KeptAt(s, chars) == {i \in 1..Len(s) : s[i] \notin chars}
StripRange(s, keep) ==
  IF keep = {} THEN <<>>
  ELSE SubSeq(s, CHOOSE i \in keep : \A j \in keep : i <= j,
                 CHOOSE i \in keep : \A j \in keep : j <= i)
StripOf(s, chars) == StripRange(s, KeptAt(s, chars))

\* the keyword tuples of translate_free_text_to_cmd
AddWords == {<<"a","d","d">>, <<"c","r","e","a","t","e">>, <<"a","p","p","l","y">>, <<"a","p","p","l","i","e","d"," ","f","o","r">>, <<"i"," ","a","p","p","l","i","e","d">>}
ListWords == {<<"l","i","s","t">>, <<"s","h","o","w">>, <<"l","s">>}
RemoveWords == {<<"r","e","m","o","v","e">>, <<"d","e","l","e","t","e">>, <<"f","o","r","g","e","t">>}
UpdateWords == {<<"u","p","d","a","t","e">>, <<"c","h","a","n","g","e">>}
ByeWords == {<<"e","x","i","t">>, <<"q","u","i","t">>, <<"b","y","e">>}
S_at == <<" ","a","t"," ">>
S_atsign == <<"@">>
S_add == <<"a","d","d">>
S_create == <<"c","r","e","a","t","e">>
UNKNOWN_ROLE == <<"U","N","K","N","O","W","N"," ","R","O","L","E">>
UNKNOWN_COMPANY == <<"U","N","K","N","O","W","N"," ","C","O","M","P","A","N","Y">>

AnyIn(t, words) == \E k \in words : Contains(t, k)

\* What the translator returns: cmd "none" is None; role and company are
\* <<>> when the dict has no such key; id is left out (nothing reads it).
Intent(cmd, role, company) == [cmd |-> cmd, role |-> role, company |-> company]
OrElse(s, dflt) == IF s = <<>> THEN dflt ELSE s

\* the add branch, on parts = t.replace("@", " at ").split(" at ")
TranslatedAdd(parts) ==
  IF Contains(parts, S_at)
  THEN Intent("add",
              OrElse(StripOf(Replaced(Replaced(PartBefore(parts, S_at), S_add, <<>>),
                                      S_create, <<>>), {" ", ":"}),
                     UNKNOWN_ROLE),
              OrElse(strip(PartBefore(PartAfter(parts, S_at), S_at)), UNKNOWN_COMPANY))
  ELSE Intent("add", <<>>, <<>>)

Translated(t) ==
  IF AnyIn(t, AddWords) THEN TranslatedAdd(Replaced(t, S_atsign, S_at))
  ELSE IF AnyIn(t, ListWords) THEN Intent("list", <<>>, <<>>)
  ELSE IF AnyIn(t, RemoveWords) THEN Intent("remove", <<>>, <<>>)
  ELSE IF AnyIn(t, UpdateWords) THEN Intent("update", <<>>, <<>>)
  ELSE IF AnyIn(t, ByeWords) THEN Intent("exit", <<>>, <<>>)
  ELSE Intent("none", <<>>, <<>>)

translate_free_text_to_cmd(text) == Translated(lower(text))

\* Lines whose first token is no command word: an add with role and
\* company, an add with an empty role, an add without " at ", a list, a
\* remove with an id-like token, a remove without, an update, an exit,
\* nothing the translator knows
T_create_dev == <<"C","r","e","a","t","e"," ","d","e","v"," ","@"," ","A","c","m","e">>
T_create_at == <<"c","r","e","a","t","e"," ","@"," ","a","c","m","e">>
T_please_add == <<"p","l","e","a","s","e"," ","a","d","d">>
T_show == <<"s","h","o","w"," ","a","l","l">>
T_please_delete == <<"p","l","e","a","s","e"," ","d","e","l","e","t","e"," ","1","2","3","4","a","b","c","d","-","e","f">>
T_forget == <<"f","o","r","g","e","t"," ","i","t">>
T_change == <<"c","h","a","n","g","e"," ","0">>
T_bye == <<"b","y","e">>
T_hello == <<"h","e","l","l","o">>
FreeTexts ==
  {T_create_dev, T_create_at, T_please_add, T_show, T_please_delete,
   T_forget, T_change, T_bye, T_hello}

\* translate_free_text_to_cmd over these lines, evaluated once
IntentTable == [text \in FreeTexts |-> translate_free_text_to_cmd(text)]

\* (variant: a remove intent is carried out, on the first record)
handle_command_free_obeys(f, u, now, tl) ==
  IF tl.cmd = "add" /\ tl.role # <<>> /\ tl.company # <<>>
  THEN add_job(f, u, now, tl.role, tl.company, S_applied, "never")
  ELSE IF tl.cmd = "list" THEN list_jobs(f, u, now, None)
  ELSE IF tl.cmd = "remove" THEN remove_job(f, u, now, IntIdent(0), "never")
  ELSE Result(f, u, "none", <<>>)

\* handle_command's last branch, tl being what the translator returned:
\* add_job for an add with role and company, list_jobs for a list, else
\* "Unknown command"
handle_command_free(f, u, now, tl) ==
  IF tl.cmd = "add" /\ tl.role # <<>> /\ tl.company # <<>>
  THEN add_job(f, u, now, tl.role, tl.company, S_applied, "never")
  ELSE IF tl.cmd = "list" THEN list_jobs(f, u, now, None)
  ELSE Result(f, u, "none", <<>>)

\* -------------------------------------------------- interactive helpers
EXIT_WORDS ==
  {<<"e","x","i","t">>, <<"q","u","i","t">>, <<"q">>,
   <<"c","a","n","c","e","l">>, <<"n","e","v","e","r"," ","m","i","n","d">>,
   <<"n","a","h">>, <<"n","o","p","e">>,
   <<"f","o","r","g","e","t"," ","i","t">>, <<"s","t","o","p">>,
   <<"n","v","m">>}
SKIP_WORDS ==
  {<<"s","k","i","p">>, <<"p","a","s","s">>, <<"s">>, <<"n","o">>, <<"n">>}

\* One pass of _prompt_field's loop on the line read: AbortInteractive is
\* raised, the field is prompted again, or a value (None included) is returned.
_prompt_field(line, required, default) ==
  LET raw == strip(line)
      low == lower(raw)
  IN IF low \in EXIT_WORDS THEN [kind |-> "abort", val |-> None]
     ELSE IF low \in SKIP_WORDS THEN [kind |-> "return", val |-> default]
     ELSE IF raw = S_empty
          THEN (IF required THEN [kind |-> "again", val |-> None]
                ELSE [kind |-> "return", val |-> default])
          ELSE [kind |-> "return", val |-> raw]

\* add_job_interactive's position: no flow running ("idle"), or the field
\* being prompted with the values gathered so far.
NoFlow == [at |-> "idle", role |-> None, company |-> None]

\* add_job_interactive, one line further: the flow, the files and the uuid
\* count afterwards, and how the step ended ("prompt": another prompt
\* follows; "none": cancelled, None returned; else as add_job ended).
add_job_interactive(fl, f, u, now, line) ==
  LET got == IF fl.at = "status" THEN _prompt_field(line, FALSE, S_applied)
             ELSE _prompt_field(line, TRUE, None)
      status == IF got.val = None \/ got.val = S_empty THEN S_applied ELSE got.val
      r == add_job(f, u, now, fl.role, fl.company, status, "never")
      Goes(next) == [flow |-> next, fs |-> f, uuid |-> u, ret |-> "prompt", out |-> <<>>]
  IN CASE got.kind = "abort" ->
            [flow |-> NoFlow, fs |-> f, uuid |-> u, ret |-> "none", out |-> <<>>]
       [] got.kind = "again" -> Goes(fl)
       [] got.kind = "return" /\ fl.at = "role" ->
            Goes([fl EXCEPT !.at = "company", !.role = got.val])
       [] got.kind = "return" /\ fl.at = "company" ->
            Goes([fl EXCEPT !.at = "status", !.company = got.val])
       [] OTHER -> [flow |-> NoFlow] @@ r

\* ------------------------------------------------------------------ state
VARIABLES
  fs,     \* the data directory: the store file, the .tmp file, the inodes
  uuid,   \* how many uuid4() values have been drawn (the k-th one is k)
  clock,  \* datetime.now()
  last,   \* the last call: which function, and how it ended
  flow,   \* the guided add of the interactive session
  pc,     \* concurrent processes: where each is in its call
  loc,    \* concurrent processes: the list each is about to save
  fd,     \* concurrent processes: the inode each has open for writing
  res     \* concurrent processes: how each one's last call ended

vars == <<fs, uuid, clock, last, flow, pc, loc, fd, res>>
procVars == <<pc, loc, fd, res>>

NoCall == [op |-> "none", ret |-> "none"]

\* The data file is absent (first run) or holds bytes that do not parse.
Init ==
  /\ fs \in {NoFiles,
             [NoFiles EXCEPT !.store = 1, !.data[1] = CorruptFile]}
  /\ uuid = 0
  /\ clock = 0
  /\ last = NoCall
  /\ flow = NoFlow
  /\ pc = [p \in Procs |-> "idle"]
  /\ loc = [p \in Procs |-> <<>>]
  /\ fd = [p \in Procs |-> 0]
  /\ res = [p \in Procs |-> "none"]

\* Inputs of the calls
S_qa_raw == <<" ","q","a"," ">>
S_acme_raw == <<"A","c","m","e"," ">>
Names == {S_dev, S_qa_raw}
Identifiers ==
  {IntIdent(n) : n \in (-1)..MaxJobs} \cup {DigitsIdent(1)}
  \cup {IdIdent(u) : u \in 1..MaxUuid}
\* The identifiers the calls of a run are made with: the first position, the
\* second as a digit string, a position past the end, the newest id
CallIdents == {IntIdent(0), DigitsIdent(1), IntIdent(MaxJobs), IdIdent(MaxUuid)}
AddArgs == Names \X {S_acme_raw} \X {Omitted, S_Offer_raw, S_zzz}
UpdateArgs == {None, S_qa_raw} \X {None, S_dev} \X {None, S_ofer}
ListArgs == {None, S_empty, S_Offer_raw}

\* The state after a call, and what `last` remembers of it
Does(op, r) ==
  /\ fs' = r.fs
  /\ uuid' = r.uuid
  /\ last' = [op |-> op, ret |-> r.ret]
  /\ clock' = clock

\* Time passes.
Tick ==
  /\ clock < MaxClock
  /\ clock' = clock + 1
  /\ last' = [op |-> "tick", ret |-> "none"]
  /\ UNCHANGED <<fs, uuid, flow, procVars>>

\* Room for one more record within the bounds
MayAdd == Len(StoreRecs(fs)) < MaxJobs /\ uuid < MaxUuid

AddJob ==
  /\ MayAdd
  /\ \E a \in AddArgs : Does("add", add_job(fs, uuid, clock, a[1], a[2], a[3], "never"))
  /\ UNCHANGED <<flow, procVars>>

ListJobs ==
  /\ \E s \in ListArgs : Does("list", list_jobs(fs, uuid, clock, s))
  /\ UNCHANGED <<flow, procVars>>

RemoveJob ==
  /\ \E ident \in CallIdents : Does("remove", remove_job(fs, uuid, clock, ident, "never"))
  /\ UNCHANGED <<flow, procVars>>

UpdateJob ==
  /\ \E ident \in CallIdents, a \in UpdateArgs :
       Does("update", update_job(fs, uuid, clock, ident, a[1], a[2], a[3], "never"))
  /\ UNCHANGED <<flow, procVars>>

Next == Tick \/ AddJob \/ ListJobs \/ RemoveJob \/ UpdateJob

\* One process at a time calls the CRUD functions; every call runs to its end.
Spec == Init /\ [][Next]_vars

\* ------------------------------------------- a single writer that can die
\* The calls of one process, each of which may be cut off inside save_jobs
\* (the process is killed; the next call is made by a new process).
CutArgsAdd == {<<S_dev, S_acme_raw, Omitted>>}
CutArgsUpdate == {<<None, None, S_ofer>>, <<S_qa_raw, None, None>>}
CutIdents == {IntIdent(0), IntIdent(1)}

AddJobCut ==
  /\ MayAdd
  /\ \E a \in CutArgsAdd, stop \in Stops :
       Does("add", add_job(fs, uuid, clock, a[1], a[2], a[3], stop))
  /\ UNCHANGED <<flow, procVars>>

RemoveJobCut ==
  /\ \E ident \in CutIdents, stop \in Stops :
       Does("remove", remove_job(fs, uuid, clock, ident, stop))
  /\ UNCHANGED <<flow, procVars>>

UpdateJobCut ==
  /\ \E ident \in CutIdents, a \in CutArgsUpdate, stop \in Stops :
       Does("update", update_job(fs, uuid, clock, ident, a[1], a[2], a[3], stop))
  /\ UNCHANGED <<flow, procVars>>

NextCut == Tick \/ AddJobCut \/ RemoveJobCut \/ UpdateJobCut

SpecCut == Init /\ [][NextCut]_vars

\* ------------------------------------------------------ the guided prompt
S_n == <<"n">>
S_Quit_raw == <<" ","Q","u","i","t"," ">>
\* Lines typed at a prompt: blank, a skip word, an exit word, three values
\* (one of them an alias of a status)
Lines == {S_empty, S_n, S_Quit_raw, S_dev, S_Offer_raw, S_int}

\* handle_command(["add"]): add_job_interactive starts with the Role prompt
StartAdd ==
  /\ flow.at = "idle"
  /\ MayAdd
  /\ flow' = [NoFlow EXCEPT !.at = "role"]
  /\ last' = [op |-> "guided", ret |-> "prompt"]
  /\ UNCHANGED <<fs, uuid, clock, procVars>>

\* One line is read at the current prompt.
PromptLine ==
  /\ flow.at # "idle"
  /\ \E line \in Lines :
       LET r == add_job_interactive(flow, fs, uuid, clock, line)
       IN /\ flow' = r.flow
          /\ Does("guided", r)
  /\ UNCHANGED procVars

\* Between two guided adds the first record may be removed.
RemoveFirst ==
  /\ flow.at = "idle"
  /\ Does("remove", remove_job(fs, uuid, clock, IntIdent(0), "never"))
  /\ UNCHANGED <<flow, procVars>>

\* At the "> " prompt of main: job add "role" "company" [status]; the line
\* was put in lower case when it was read.
QuickAdd ==
  /\ flow.at = "idle"
  /\ MayAdd
  /\ \E role \in Names, status \in {None, S_int} :
       Does("quick", main_handle_command_add(fs, uuid, clock, lower(role),
                                             lower(S_acme_raw), status))
  /\ UNCHANGED <<flow, procVars>>

\* At the "job> " prompt: add role company (three tokens)
CommandAdd ==
  /\ flow.at = "idle"
  /\ MayAdd
  /\ Does("add", handle_command_add(fs, uuid, clock, S_dev, strip(S_acme_raw), Omitted))
  /\ UNCHANGED <<flow, procVars>>

\* At the "job> " prompt: a line whose first token is no command word
FreeText ==
  /\ flow.at = "idle"
  /\ \E text \in FreeTexts :
       /\ IntentTable[text].cmd = "add" => MayAdd
       /\ Does("free", handle_command_free(fs, uuid, clock, IntentTable[text]))
  /\ UNCHANGED <<flow, procVars>>

NextPrompt ==
  Tick \/ StartAdd \/ PromptLine \/ RemoveFirst \/ QuickAdd \/ CommandAdd \/ FreeText

SpecPrompt == Init /\ [][NextPrompt]_vars

\* ------------------------------------------ processes on the same data file
\* Each process makes one call after another; a call that saves goes through
\* save_jobs step by step (open the .tmp file, write and close it, replace),
\* and the steps of different processes interleave. No lock is taken.
Held == {fd[q] : q \in Procs} \ {0}

ProcCalls == {"add", "update", "remove", "list"}

\* The call up to the point where save_jobs is entered
Entered(call) ==
  CASE call = "add" -> add_job(fs, uuid, clock, S_dev, S_acme_raw, Omitted, "at_open")
    [] call = "update" -> update_job(fs, uuid, clock, IntIdent(0), None, None, S_ofer, "at_open")
    [] call = "remove" -> remove_job(fs, uuid, clock, IntIdent(0), "at_open")
    [] OTHER -> list_jobs(fs, uuid, clock, None)

\* load_jobs and the change in memory; the call ends here unless it saves
Begin(p) ==
  /\ pc[p] = "idle"
  /\ \E call \in ProcCalls :
       LET r == Entered(call)
       IN /\ call = "add" => MayAdd
          /\ uuid' = r.uuid
          /\ IF r.saves
             THEN /\ pc' = [pc EXCEPT ![p] = "open"]
                  /\ loc' = [loc EXCEPT ![p] = r.saved]
                  /\ res' = [res EXCEPT ![p] = "saving"]
             ELSE /\ res' = [res EXCEPT ![p] = r.ret]
                  /\ UNCHANGED <<pc, loc>>
  /\ UNCHANGED <<fs, clock, last, flow, fd>>

\* with open(tmp, "w") as f
SaveOpen(p) ==
  /\ pc[p] = "open"
  /\ LET opened == OpenW(fs, Held)
     IN /\ fs' = opened
        /\ fd' = [fd EXCEPT ![p] = opened.tmp]
  /\ pc' = [pc EXCEPT ![p] = "write"]
  /\ UNCHANGED <<uuid, clock, last, flow, loc, res>>

\* json.dump, flush, fsync, and the file is closed
SaveWrite(p) ==
  /\ pc[p] = "write"
  /\ fs' = Collect(WriteAll(fs, fd[p], to_dicts(loc[p])), Held \ {fd[p]})
  /\ fd' = [fd EXCEPT ![p] = 0]
  /\ pc' = [pc EXCEPT ![p] = "replace"]
  /\ UNCHANGED <<uuid, clock, last, flow, loc, res>>

\* os.replace(tmp, path); FileNotFoundError when the .tmp name is gone
SaveReplace(p) ==
  /\ pc[p] = "replace"
  /\ IF fs.tmp = 0
     THEN /\ res' = [res EXCEPT ![p] = "error"]
          /\ UNCHANGED fs
     ELSE /\ res' = [res EXCEPT ![p] = "ok"]
          /\ fs' = Replace(fs, Held)
  /\ pc' = [pc EXCEPT ![p] = "idle"]
  /\ loc' = [loc EXCEPT ![p] = <<>>]
  /\ UNCHANGED <<uuid, clock, last, flow, fd>>

\* The process is killed inside save_jobs; its descriptor is closed.
Crash(p) ==
  /\ pc[p] \in {"open", "write", "replace"}
  /\ fs' = Collect(fs, Held \ {fd[p]})
  /\ fd' = [fd EXCEPT ![p] = 0]
  /\ pc' = [pc EXCEPT ![p] = "idle"]
  /\ loc' = [loc EXCEPT ![p] = <<>>]
  /\ res' = [res EXCEPT ![p] = "interrupted"]
  /\ UNCHANGED <<uuid, clock, last, flow>>

NextProcs ==
  \E p \in Procs : Begin(p) \/ SaveOpen(p) \/ SaveWrite(p) \/ SaveReplace(p) \/ Crash(p)

\* The processes start on a data directory without a data file.
InitProcs == Init /\ fs = NoFiles

SpecProcs == InitProcs /\ [][NextProcs]_vars

\* ================================================================ claims
Recs == StoreRecs(fs)
Ids(recs) == [i \in 1..Len(recs) |-> recs[i].id]
S_qa == <<"q","a">>

\* Strings normalize_status is tried on: empty, blanks, mixed case, the
\* enumeration, the aliases, near misses of members, unrelated text.
StatusProbe ==
  StatusSet \cup DOMAIN mapping \cup StatusInputs \cup
  {None, <<" ">>, <<"T","O","D","O">>, <<"o","f","e","r">>,
   <<"w","i","t","h","d","r","a","w">>, <<"a","c","c","e","p","t">>,
   <<"i","n","t","e","r">>, <<"d","o">>, <<"e","c","t","e","d">>,
   <<"a","p","p","e","c","t","e","d">>, <<"o","f","f","e","r","e","d">>,
   <<"i","n","g">>, <<"h","i","r","e","d">>, <<"R","e","j"," ">>}

NormClosed == \A s \in StatusProbe : normalize_status(s) \in StatusSet

\* What the identifier means, read off the store and not off _find_job: an
\* int or digit string is a 0-based position, any other string is an id.
Resolves(recs, ident, k) ==
  /\ k \in 1..Len(recs)
  /\ IF ident.kind \in {"int", "digits"} THEN ident.val = k - 1
     ELSE recs[k].id = ident.val
Resolvable(recs, ident) == \E k \in 1..Len(recs) : Resolves(recs, ident, k)

\* C3: every record persisted in the store has a status of the fixed
\* enumeration, whatever status strings add_job and update_job were given,
\* and normalize_status returns a member of the enumeration for every input.
C3_StatusClosed ==
  /\ NormClosed
  /\ \A i \in 1..Len(Recs) : Recs[i].status \in StatusSet
  /\ \A a \in AddArgs :
       LET r == add_job(fs, uuid, clock, a[1], a[2], a[3], "never")
       IN \A i \in 1..Len(StoreRecs(r.fs)) : StoreRecs(r.fs)[i].status \in StatusSet

C3_Witness ==
  /\ last = [op |-> "update", ret |-> "ok"]
  /\ \E i \in 1..Len(Recs) : Recs[i].status = S_offer
  /\ \E i \in 1..Len(Recs) : Recs[i].status = S_applied

\* C4: the ids of the records in the store are pairwise distinct; update_job
\* and remove_job leave the id of every record that stays as it was; add_job
\* gives the new record an id that was never drawn before (so not the id of
\* a removed record either) and keeps the ids of the others.
C4_IdsUniqueStable ==
  /\ \A i, j \in 1..Len(Recs) : i # j => Recs[i].id # Recs[j].id
  /\ \A i \in 1..Len(Recs) : Recs[i].id \in 1..uuid
  /\ \A a \in AddArgs :
       LET r == add_job(fs, uuid, clock, a[1], a[2], a[3], "never")
           post == StoreRecs(r.fs)
       IN r.ret = "ok" =>
            /\ SubSeq(Ids(post), 1, Len(Recs)) = Ids(Recs)
            /\ post[Len(post)].id \notin 1..uuid
  /\ \A ident \in Identifiers :
       /\ \A a \in UpdateArgs :
            LET r == update_job(fs, uuid, clock, ident, a[1], a[2], a[3], "never")
            IN Ids(StoreRecs(r.fs)) = Ids(Recs)
       /\ LET r == remove_job(fs, uuid, clock, ident, "never")
          IN r.ret = "ok" =>
               \E k \in 1..Len(Recs) : Ids(StoreRecs(r.fs)) = Pop(Ids(Recs), k)

\* a record was removed and a later add_job drew a new id
C4_Witness ==
  /\ last = [op |-> "add", ret |-> "ok"]
  /\ Len(Recs) = 2
  /\ Recs[1].id = 2 /\ Recs[2].id = 3

\* C5: after add_job the store is the store before followed by exactly one
\* new record; the records that were there keep id, role, company, status,
\* updated_at and their order.
C5_AddAppends ==
  \A a \in AddArgs :
    LET r == add_job(fs, uuid, clock, a[1], a[2], a[3], "never")
        post == StoreRecs(r.fs)
    IN (StoreParses(fs) /\ r.ret = "ok") =>
         /\ Len(post) = Len(Recs) + 1
         /\ SubSeq(post, 1, Len(Recs)) = Recs
         /\ r.out = <<post[Len(post)]>>

\* a second record was added after time had passed
C5_Witness ==
  /\ last = [op |-> "add", ret |-> "ok"]
  /\ Len(Recs) = 2
  /\ Recs[1].updated_at < Recs[2].updated_at

C9_CorruptPropagates ==
  (StoreExists(fs) /\ ~StoreParses(fs)) =>
    /\ load_jobs(fs, uuid, clock).err
    /\ \A a \in AddArgs :
         add_job(fs, uuid, clock, a[1], a[2], a[3], "never") = Result(fs, uuid, "error", <<>>)
    /\ \A s \in ListArgs :
         list_jobs(fs, uuid, clock, s) = Result(fs, uuid, "error", <<>>)
    /\ \A ident \in Identifiers :
         /\ remove_job(fs, uuid, clock, ident, "never") = Result(fs, uuid, "error", <<>>)
         /\ \A a \in UpdateArgs :
              update_job(fs, uuid, clock, ident, a[1], a[2], a[3], "never")
                = Result(fs, uuid, "error", <<>>)

C9_Witness ==
  /\ StoreExists(fs) /\ StoreContent(fs) = CorruptFile
  /\ last = [op |-> "add", ret |-> "error"]
  /\ clock = MaxClock

\* The value a supplied field is stored as (blanks trimmed, status canonical)
Stored(arg) ==
  CASE arg = S_qa_raw -> S_qa
    [] arg = S_dev -> S_dev
    [] arg = S_ofer -> S_offer
    [] OTHER -> arg

\* C10: a successful update_job changes, in the target record only, the
\* fields that were supplied (status normalized) and updated_at; the
\* target's id and the fields not supplied, every other record, and the
\* order and length of the store stay as they were.
C10_UpdateFrame ==
  \A ident \in Identifiers, a \in UpdateArgs :
    LET r == update_job(fs, uuid, clock, ident, a[1], a[2], a[3], "never")
        post == StoreRecs(r.fs)
    IN r.ret = "ok" =>
         \E k \in 1..Len(Recs) :
           /\ Resolves(Recs, ident, k)
           /\ Len(post) = Len(Recs)
           /\ \A i \in 1..Len(Recs) : i # k => post[i] = Recs[i]
           /\ post[k].id = Recs[k].id
           /\ post[k].role = IF a[1] = None THEN Recs[k].role ELSE Stored(a[1])
           /\ post[k].company = IF a[2] = None THEN Recs[k].company ELSE Stored(a[2])
           /\ post[k].status = IF a[3] = None THEN Recs[k].status ELSE Stored(a[3])
           /\ post[k].updated_at = clock
           /\ r.out = <<post[k]>>

\* the second of two records was updated, later than the first was written
C10_Witness ==
  /\ last = [op |-> "update", ret |-> "ok"]
  /\ Len(Recs) = 2
  /\ Recs[2].updated_at > Recs[1].updated_at
  /\ Recs[2].status = S_offer /\ Recs[2].role = S_dev
  /\ Recs[1].status = S_applied

\* C1: when save_jobs is cut off at any step before os.replace (before the
\* .tmp file is opened, after it is opened, after it is written, fsynced and
\* closed), the store file is the file it was before the call, with the
\* content it had.
C1_InterruptedSaveKeepsStore ==
  \A stop \in Stops \ {"never"} :
    LET Kept(r) == r.fs.store = fs.store /\ StoreContent(r.fs) = StoreContent(fs)
    IN /\ \A a \in AddArgs : Kept(add_job(fs, uuid, clock, a[1], a[2], a[3], stop))
       /\ \A ident \in Identifiers :
            /\ Kept(remove_job(fs, uuid, clock, ident, stop))
            /\ \A a \in UpdateArgs :
                 Kept(update_job(fs, uuid, clock, ident, a[1], a[2], a[3], stop))

\* a call was cut off after the .tmp file was written in full: the .tmp
\* file holds the new list, the store file the old one
C1_Witness ==
  /\ last = [op |-> "update", ret |-> "interrupted"]
  /\ Len(Recs) = 2
  /\ fs.tmp # 0 /\ fs.data[fs.tmp].kind = "json"
  /\ fs.data[fs.tmp].recs # Recs

\* C2: whatever the interleaving of the processes' calls, the store file
\* always holds a complete serialization of a record list: no reader finds
\* it partially written or truncated.
C2_StoreAlwaysComplete == StoreParses(fs)

\* Whether a line typed at a prompt is an exit word, a skip word, blank
IsExit(line) == lower(strip(line)) \in EXIT_WORDS
IsSkip(line) == lower(strip(line)) \in SKIP_WORDS
IsBlank(line) == strip(line) = S_empty

\* C7: in the guided add, an exit word at any prompt ends the flow with no
\* record created and the store unchanged; any other line either leads to
\* another prompt with nothing saved, or ends the flow with exactly one
\* commit of one new record.
C7_GuidedAllOrNothing ==
  (flow.at # "idle" /\ StoreParses(fs)) =>
    \A line \in Lines :
      LET r == add_job_interactive(flow, fs, uuid, clock, line)
          post == StoreRecs(r.fs)
      IN IF IsExit(line)
         THEN r.fs = fs /\ r.flow = NoFlow /\ r.ret = "none"
         ELSE IF r.flow.at # "idle"
         THEN r.fs = fs /\ r.ret = "prompt"
         ELSE /\ r.ret = "ok"
              /\ Len(post) = Len(Recs) + 1
              /\ SubSeq(post, 1, Len(Recs)) = Recs

\* C8: at the prompt of a required field (role, company) a blank line and a
\* skip word both leave the flow at that prompt.
C8_RequiredReprompts ==
  flow.at \in {"role", "company"} =>
    \A line \in Lines :
      (IsBlank(line) \/ IsSkip(line)) =>
        add_job_interactive(flow, fs, uuid, clock, line).flow = flow

\* The list without its k-th record, the others in their order
Without(recs, k) == SubSeq(recs, 1, k - 1) \o SubSeq(recs, k + 1, Len(recs))

Absent(recs, id) == \A i \in 1..Len(recs) : recs[i].id # id
NotFound(f, u, id) ==
  /\ remove_job(f, u, clock, IdIdent(id), "never").ret = "none"
  /\ \A a \in UpdateArgs :
       update_job(f, u, clock, IdIdent(id), a[1], a[2], a[3], "never").ret = "none"

\* C12: right after remove_job returned the record with a given id,
\* remove_job and update_job with that id return None; and an id that was
\* removed earlier (in these runs every id drawn was stored, so: an id drawn
\* and no longer in the store) is not found now and is in the store after
\* no add_job, update_job or remove_job, whatever their arguments.
C12_RemovedIdStaysGone ==
  StoreParses(fs) =>
    /\ \A ident \in Identifiers :
         LET r == remove_job(fs, uuid, clock, ident, "never")
         IN r.ret = "ok" => NotFound(r.fs, r.uuid, r.out[1].id)
    /\ \A id \in 1..uuid :
         Absent(Recs, id) =>
           /\ NotFound(fs, uuid, id)
           /\ \A a \in AddArgs :
                Absent(StoreRecs(add_job(fs, uuid, clock, a[1], a[2], a[3], "never").fs), id)
           /\ \A ident \in Identifiers :
                /\ Absent(StoreRecs(remove_job(fs, uuid, clock, ident, "never").fs), id)
                /\ \A a \in UpdateArgs :
                     Absent(StoreRecs(update_job(fs, uuid, clock, ident,
                                                 a[1], a[2], a[3], "never").fs), id)

\* id 2 was removed, a record was added and one updated since
C12_Witness ==
  /\ last = [op |-> "update", ret |-> "ok"]
  /\ Len(Recs) = 2
  /\ Recs[1].id = 1 /\ Recs[2].id = 3

\* C13: when save_jobs stops before os.replace has completed (open, the
\* write or the replace fails), add_job, update_job and remove_job end
\* without a result and the store file keeps the content it had; a call
\* that returns a record has replaced the store file with the list it saved.
C13_FailedSaveSurfaces ==
  \A stop \in Stops :
    LET Right(r) ==
          r.saves =>
            IF stop = "never"
            THEN /\ r.ret = "ok" /\ r.out # <<>>
                 /\ StoreRecs(r.fs) = r.saved /\ r.fs.tmp = 0
            ELSE /\ r.ret # "ok" /\ r.out = <<>>
                 /\ r.fs.store = fs.store /\ StoreContent(r.fs) = StoreContent(fs)
    IN /\ \A a \in AddArgs : Right(add_job(fs, uuid, clock, a[1], a[2], a[3], stop))
       /\ \A ident \in Identifiers :
            /\ Right(remove_job(fs, uuid, clock, ident, stop))
            /\ \A a \in UpdateArgs :
                 Right(update_job(fs, uuid, clock, ident, a[1], a[2], a[3], stop))

\* an add_job stopped at the write: the .tmp file is incomplete, the store
\* holds the one record it held
C13_Witness ==
  /\ last = [op |-> "add", ret |-> "interrupted"]
  /\ fs.tmp # 0 /\ fs.data[fs.tmp].kind = "partial"
  /\ Len(Recs) = 1

\* C14: when a process running a mutating operation next to another one
\* comes to the end of save_jobs, it ends without error and the store file
\* then holds exactly the list this process saved (the last replace wins,
\* and the store is never anything but one process's whole list).
C14_LastWriterWins ==
  [][\A p \in Procs :
       (pc[p] = "replace" /\ pc'[p] = "idle" /\ res'[p] # "interrupted") =>
         /\ res'[p] = "ok"
         /\ StoreContent(fs') = JsonFile(to_dicts(loc[p]))]_vars

\* The timestamps of a list, in its order
Times(recs) == [i \in 1..Len(recs) |-> recs[i].updated_at]

\* C15: updated_at of a record is the time of the last successful add_job or
\* update_job on it: no record is stamped later than now; add_job stamps the
\* new record with now and no other; a successful update_job stamps its
\* target with now, whether or not a field is supplied, and no other;
\* remove_job stamps none of the records that stay; list_jobs and a remove
\* or update that finds nothing leave every timestamp as it is.
C15_UpdatedAtIsLastMutation ==
  StoreParses(fs) =>
    /\ \A i \in 1..Len(Recs) : Recs[i].updated_at \in 0..clock
    /\ \A a \in AddArgs :
         LET r == add_job(fs, uuid, clock, a[1], a[2], a[3], "never")
         IN Times(StoreRecs(r.fs)) = Append(Times(Recs), clock)
    /\ \A s \in ListArgs : list_jobs(fs, uuid, clock, s).fs = fs
    /\ \A ident \in Identifiers :
         /\ LET r == remove_job(fs, uuid, clock, ident, "never")
            IN IF r.ret = "ok"
               THEN \E k \in 1..Len(Recs) :
                      /\ Resolves(Recs, ident, k)
                      /\ Times(StoreRecs(r.fs)) = Without(Times(Recs), k)
               ELSE r.fs = fs
         /\ \A a \in UpdateArgs :
              LET r == update_job(fs, uuid, clock, ident, a[1], a[2], a[3], "never")
              IN IF r.ret = "ok"
                 THEN \E k \in 1..Len(Recs) :
                        /\ Resolves(Recs, ident, k)
                        /\ Times(StoreRecs(r.fs)) = [Times(Recs) EXCEPT ![k] = clock]
                 ELSE r.fs = fs

\* the first of two records was updated after the second was added
C15_Witness ==
  /\ last = [op |-> "update", ret |-> "ok"]
  /\ Len(Recs) = 2
  /\ Recs[1].updated_at > Recs[2].updated_at

\* What the alias table says, written out
AliasTarget(k) ==
  CASE k = S_int -> S_interviewing
    [] k = S_interview -> S_interviewing
    [] k = S_appl -> S_applied
    [] k = S_rej -> S_rejected
    [] k = S_acc -> S_accepted
    [] k = S_off -> S_offer
    [] OTHER -> S_todo
AliasKeys == {S_int, S_interview, S_appl, S_rej, S_acc, S_off, S_todo}

\* The members whose similarity to c (2 * matches / total length) is at
\* least 0.6, and "m is at least as similar to c as n is"
Similar(c) ==
  {m \in StatusSet : 10 * Matches(m, c) >= 3 * (Len(m) + Len(c))}
AsSimilar(m, n, c) ==
  Matches(m, c) * (Len(n) + Len(c)) >= Matches(n, c) * (Len(m) + Len(c))

\* The precedence on one input s, c being s trimmed and in lower case
Precedence(s, c) ==
  IF c \in StatusSet THEN normalize_status(s) = c
  ELSE IF c \in AliasKeys THEN normalize_status(s) = AliasTarget(c)
  ELSE IF Similar(c) = {} THEN normalize_status(s) = S_applied
  ELSE /\ normalize_status(s) \in Similar(c)
       /\ \A m \in Similar(c) : AsSimilar(normalize_status(s), m, c)

PrecedenceHolds ==
  \A s \in StatusProbe : Precedence(s, lower(strip(IF s = None THEN <<>> ELSE s)))

\* C16: normalize_status returns the trimmed, lower-cased input when that is
\* a member of the enumeration; else the alias target when it is an alias
\* key; else a most similar member among those at similarity 0.6 or more;
\* else applied. A status the store holds, being a member, is returned as
\* it is.
C16_Precedence ==
  /\ PrecedenceHolds
  /\ \A i \in 1..Len(Recs) : normalize_status(Recs[i].status) = Recs[i].status

\* "int" was typed as the role and as the status of a guided add: stored as
\* typed in role, as interviewing in status
C16_Witness ==
  /\ last = [op |-> "guided", ret |-> "ok"]
  /\ \E i \in 1..Len(Recs) : Recs[i].role = S_int /\ Recs[i].status = S_interviewing

\* Filters list_jobs is tried with, and the status each one stands for
ListProbe == ListArgs \cup {S_zzz, S_ofer, S_applied}
FilterStatus(s) ==
  CASE s = S_Offer_raw -> S_offer
    [] s = S_ofer -> S_offer
    [] OTHER -> S_applied

\* The positions of recs whose record has this status, and "out is recs at
\* these positions, in their order"
Having(recs, status) == {i \in 1..Len(recs) : recs[i].status = status}
Picks(out, recs, at) ==
  /\ Len(out) = Cardinality(at)
  /\ \A n \in 1..Len(out) :
       \E i \in at : out[n] = recs[i] /\ Cardinality({k \in at : k < i}) = n - 1

\* C17: list_jobs saves nothing and leaves the files as they are; without a
\* filter (None, "") it returns the records of the store in store order,
\* with a filter those whose status is the normalized filter, in store
\* order.
C17_ListIsReadOnly ==
  StoreParses(fs) =>
    \A s \in ListProbe :
      LET r == list_jobs(fs, uuid, clock, s)
      IN /\ r.fs = fs /\ ~r.saves /\ r.ret = "ok"
         /\ IF s \in {None, S_empty} THEN r.out = Recs
            ELSE Picks(r.out, Recs, Having(Recs, FilterStatus(s)))

\* a list call on a store whose first record is an offer and whose second
\* is not
C17_Witness ==
  /\ last = [op |-> "list", ret |-> "ok"]
  /\ Len(Recs) = 2
  /\ Recs[1].status = S_offer /\ Recs[2].status = S_applied

\* C18: whenever the store file is there and parses, loading it (at any
\* time) gives back the records it holds, and saving what was loaded leaves
\* the store file with the content it had: the same records, fields and
\* order, the same bytes.
C18_SaveLoadIdempotent ==
  (StoreExists(fs) /\ StoreParses(fs)) =>
    \A now \in 0..MaxClock :
      LET ld == load_jobs(fs, uuid, now)
          again == save_jobs(fs, ld.jobs, "never")
      IN /\ ~ld.err
         /\ to_dicts(ld.jobs) = Recs
         /\ StoreContent(again) = StoreContent(fs)
         /\ [i \in 1..Len(Recs) |-> DOMAIN Recs[i]] = [i \in 1..Len(Recs) |-> JobKeys]

\* a store of two records written at different times, the first one updated
C18_Witness ==
  /\ last = [op |-> "update", ret |-> "ok"]
  /\ Len(Recs) = 2
  /\ clock = MaxClock
  /\ Recs[1].updated_at = MaxClock /\ Recs[2].updated_at = 0
  /\ Recs[1].status = S_offer /\ Recs[1].role = S_qa

\* The record a call has created has status applied
MadeApplied(r) == r.ret = "ok" => r.out[1].status = S_applied

\* C19: a record created from a role and a company without a status has
\* status applied: by add_job with status left out, by the tracker's
\* command `add role company`, by the guided add with the status prompt
\* skipped or left blank, by the dispatcher's `job add "role" "company"`.
C19_DefaultApplied ==
  StoreParses(fs) =>
    /\ \A role \in Names :
         /\ MadeApplied(add_job(fs, uuid, clock, role, S_acme_raw, Omitted, "never"))
         /\ MadeApplied(handle_command_add(fs, uuid, clock, role, S_acme_raw, Omitted))
         /\ MadeApplied(main_handle_command_add(fs, uuid, clock, role, S_acme_raw, None))
    /\ flow.at = "status" =>
         \A line \in {S_empty, S_n} :
           MadeApplied(add_job_interactive(flow, fs, uuid, clock, line))

\* the three paths of the tracker module alone
C19_TrackerPaths ==
  StoreParses(fs) =>
    /\ \A role \in Names :
         /\ MadeApplied(add_job(fs, uuid, clock, role, S_acme_raw, Omitted, "never"))
         /\ MadeApplied(handle_command_add(fs, uuid, clock, role, S_acme_raw, Omitted))
    /\ flow.at = "status" =>
         \A line \in {S_empty, S_n} :
           MadeApplied(add_job_interactive(flow, fs, uuid, clock, line))

\* C20: a line that reaches the free-text branch of handle_command leaves
\* the files as they are, or (an add intent with role and company) leaves
\* the store as it was with one record added at the end; list, remove,
\* update and exit intents and lines not understood change nothing.
C20_FreeTextOnlyAppends ==
  \A text \in FreeTexts :
    LET r == handle_command_free(fs, uuid, clock, IntentTable[text])
        post == StoreRecs(r.fs)
    IN \/ r.fs = fs
       \/ /\ text \in {T_create_dev, T_create_at}
          /\ StoreParses(fs) /\ StoreParses(r.fs)
          /\ Len(post) = Len(Recs) + 1
          /\ SubSeq(post, 1, Len(Recs)) = Recs

\* a free-text line added the second record, "unknown role" at acme
C20_Witness ==
  /\ last = [op |-> "free", ret |-> "ok"]
  /\ Len(Recs) = 2
  /\ Recs[2].role = UNKNOWN_ROLE /\ Recs[2].status = S_applied
  /\ Recs[1].status = S_todo
====
